---- MODULE Spec2Model ----
(***************************************************************************)
(* A model of three parts of fqlib:                                        *)
(*   - validators/single/duplicate_name.rs  (DuplicateNameValidator)       *)
(*   - validators/single/alphabet.rs        (AlphabetValidator)            *)
(*   - distributions/quality_scores.rs      (QualityScores, clamp)         *)
(* Each part has a specification of its own; the variables of the other    *)
(* parts stay at their idle values under it.                               *)
(***************************************************************************)
EXTENDS Integers, Sequences, FiniteSets, TLC

VARIABLES
    stream,                 \* the records of the run, by position: the name of each Block
    filter,                 \* DuplicateNameValidator.filter: the names it answers "present" for
    possible_duplicates,    \* DuplicateNameValidator.possible_duplicates: name -> u8
    inserted,               \* positions of the records insert() was called for
    flagged,                \* positions of the records whose insert() the filter answered "present"
    resets,                 \* positions of the records whose insert() set a counter of 1 back to 0
    outcome,                \* position -> result of validate() on that record
    replay_outcome,         \* position -> result of validate() on that record in a second pass 2
    pc,                     \* where the caller is: "any", "pass1", "pass2", "done", "idle"
    empty_result,           \* <<b>> once is_empty() returned b at the end of pass 1
    alphabet,               \* AlphabetValidator.alphabet: the permitted bytes
    sequence,               \* the sequence line of the Block under validation
    calls,                  \* the results of the validate() calls on that Block, in order
    sample_out              \* the last draw of QualityScores::sample and the score it gave

detector_vars ==
    <<stream, filter, possible_duplicates, inserted, flagged, resets, outcome, replay_outcome,
      pc, empty_result>>

alphabet_vars == <<alphabet, sequence, calls>>

vars ==
    <<stream, filter, possible_duplicates, inserted, flagged, resets, outcome, replay_outcome,
      pc, empty_result, alphabet, sequence, calls, sample_out>>

(***************************************************************************)
(* Bounds of the model.                                                    *)
(***************************************************************************)
\* longest stream of records in the two-pass run
MaxRecords == 5
\* longest stream of records when insert and validate interleave freely
MaxCalls == 3
\* longest sequence line given to the alphabet validator
MaxSeqLen == 3
\* how many times validate() is called on one Block
MaxValidations == 2
\* longest stream of records, and longest sequence line, when both validators
\* run over one file
MaxFileRecords == 2
MaxFileSeqLen == 2
\* a draw of the normal distribution is a multiple of 1/Scale
Scale == 4
\* how far below MIN and above MAX a draw may fall, in units of 1/Scale
Margin == 12

\* the names a Block may carry (the empty name included)
Names == {"", "r1", "r2", "r3"}

Streams(n) == UNION {[1..k -> Names] : k \in 0..n}

NamesOf(s) == {s[i] : i \in DOMAIN s}

(***************************************************************************)
(* The idle values of each part.                                           *)
(***************************************************************************)
IdleAlphabet ==
    /\ alphabet = {}
    /\ sequence = << >>
    /\ calls = << >>

IdleQuality == sample_out = << >>

(***************************************************************************)
(* Results of validate(): Ok(()) or Err(Error).                            *)
(***************************************************************************)
NotCalled == [tag |-> "NotCalled"]

Ok == [tag |-> "Ok"]

Error(code, name, message, line_type, col_no) ==
    [tag |-> "Err", code |-> code, name |-> name, message |-> message,
     line_type |-> line_type, col_no |-> col_no]

IsErr(r) == r.tag = "Err"

IsOk(r) == r.tag = "Ok"

(***************************************************************************)
(* ScalableBloomFilter.  The filter is held as the set of names for which  *)
(* it answers "present": the names put into it, and the names that collide *)
(* with them (false positives).  It has no false negatives, and an answer  *)
(* "present" stays "present".                                              *)
(***************************************************************************)
EmptyFilter == {}

filter_contains(f, name) == name \in f

\* The filters that may result from putting `name` into f: name is present
\* afterwards, and so is any set of names that now collide.
filter_insert(f, name, universe) ==
    {f \cup {name} \cup fp : fp \in SUBSET (universe \ (f \cup {name}))}

(***************************************************************************)
(* DuplicateNameValidator                                                  *)
(***************************************************************************)
EmptyMap == << >>

Keys(m) == DOMAIN m

\* an insertion that keeps the value of a key the map already holds
MapInsertIfAbsent(m, key, value) ==
    [k \in (DOMAIN m) \cup {key} |-> IF k \in DOMAIN m THEN m[k] ELSE value]

\* HashMap::insert(key, value): adds the key or overwrites its value
MapInsert(m, key, value) ==
    [k \in (DOMAIN m) \cup {key} |-> IF k = key THEN value ELSE m[k]]

\* a code copied from the alphabet validator
DuplicateCodeCopied == "S002"

DuplicateCode == "S007"

DuplicateName == "DuplicateNameValidator"

\* *count += 1 on a u8: wraps in a release build (a debug build panics at 255 + 1)
IncrementU8(count) == (count + 1) % 256

\* DuplicateNameValidator::new
New ==
    /\ filter = EmptyFilter
    /\ possible_duplicates = EmptyMap

\* the positions whose insert() found its name counted and put the count back
\* to 0, once the record at position i is inserted into the map m
ResetsAfter(m, i) ==
    IF stream[i] \in Keys(m) /\ m[stream[i]] >= 1 THEN resets \cup {i} ELSE resets

\* an insert() that asks the filter with contains(), and so never fills it
InsertWithoutFilterInsert(i) ==
    LET name == stream[i] IN
    /\ inserted' = inserted \cup {i}
    /\ IF filter_contains(filter, name)
         THEN /\ filter' = filter
              /\ flagged' = flagged \cup {i}
              /\ resets' = ResetsAfter(possible_duplicates, i)
              /\ possible_duplicates' = MapInsert(possible_duplicates, name, 0)
         ELSE /\ filter' = filter
              /\ UNCHANGED <<flagged, resets, possible_duplicates>>

\* an insert() with the filter's answer negated
InsertNegated(i) ==
    LET name == stream[i] IN
    /\ inserted' = inserted \cup {i}
    /\ IF filter_contains(filter, name)
         THEN /\ filter' = filter
              /\ flagged' = flagged \cup {i}
              /\ UNCHANGED <<resets, possible_duplicates>>
         ELSE /\ filter' \in filter_insert(filter, name, NamesOf(stream))
              /\ resets' = ResetsAfter(possible_duplicates, i)
              /\ possible_duplicates' = MapInsert(possible_duplicates, name, 0)
              /\ UNCHANGED flagged

\* an insert() that records the name whatever the filter answers
InsertAlways(i) ==
    LET name == stream[i] IN
    /\ inserted' = inserted \cup {i}
    /\ resets' = ResetsAfter(possible_duplicates, i)
    /\ possible_duplicates' = MapInsert(possible_duplicates, name, 0)
    /\ IF filter_contains(filter, name)
         THEN /\ filter' = filter
              /\ flagged' = flagged \cup {i}
         ELSE /\ filter' \in filter_insert(filter, name, NamesOf(stream))
              /\ UNCHANGED flagged

\* DuplicateNameValidator::insert(b), b the record at position i
Insert(i) ==
    LET name == stream[i] IN
    /\ inserted' = inserted \cup {i}
    /\ IF filter_contains(filter, name)
         THEN /\ filter' = filter
              /\ flagged' = flagged \cup {i}
              /\ resets' = ResetsAfter(possible_duplicates, i)
              /\ possible_duplicates' = MapInsert(possible_duplicates, name, 0)
         ELSE /\ filter' \in filter_insert(filter, name, NamesOf(stream))
              /\ UNCHANGED <<flagged, resets, possible_duplicates>>

\* an is_empty() that tolerates one candidate
is_emptyAtMostOne == Cardinality(Keys(possible_duplicates)) <= 1

\* DuplicateNameValidator::is_empty
is_empty == Keys(possible_duplicates) = {}

\* a validate() that reports every candidate
ValidateResultAnyCandidate(m, name) ==
    IF name \in Keys(m)
      THEN Error(DuplicateCode, DuplicateName, <<"Duplicate found: ", name>>, "Name", 1)
      ELSE Ok

\* a validate() that reports a duplicate from the count 2 on
ValidateResultOffByOne(m, name) ==
    IF name \in Keys(m) /\ m[name] > 1
      THEN Error(DuplicateCode, DuplicateName, <<"Duplicate found: ", name>>, "Name", 1)
      ELSE Ok

\* The result of validate(b) for a Block named `name`
ValidateResult(m, name) ==
    IF name \in Keys(m) /\ m[name] >= 1
      THEN Error(DuplicateCode, DuplicateName, <<"Duplicate found: ", name>>, "Name", 1)
      ELSE Ok

\* a validate() that passes a candidate without counting it
ValidateMapNoCount(m, name) == m

\* a validate() that looks the name up with entry().or_insert(0)
ValidateMapEntry(m, name) ==
    IF name \in Keys(m) /\ m[name] >= 1
      THEN m
      ELSE MapInsert(m, name, IncrementU8(IF name \in Keys(m) THEN m[name] ELSE 0))

\* a validate() that counts before it tests the count
ValidateMapCountAlways(m, name) ==
    IF name \in Keys(m)
      THEN [m EXCEPT ![name] = IncrementU8(m[name])]
      ELSE m

\* a validate() that drops a candidate once it has reported it
ValidateMapForget(m, name) ==
    IF name \in Keys(m) /\ m[name] >= 1
      THEN [k \in Keys(m) \ {name} |-> m[k]]
      ELSE IF name \in Keys(m)
             THEN [m EXCEPT ![name] = IncrementU8(m[name])]
             ELSE m

\* The map validate(b) leaves for a Block named `name`
ValidateMap(m, name) ==
    IF name \in Keys(m) /\ ~(m[name] >= 1)
      THEN [m EXCEPT ![name] = IncrementU8(m[name])]
      ELSE m

\* DuplicateNameValidator::validate(b), b the record at position i
Validate(i) ==
    LET name == stream[i] IN
    /\ outcome' = [outcome EXCEPT ![i] = ValidateResult(possible_duplicates, name)]
    /\ possible_duplicates' = ValidateMap(possible_duplicates, name)
    /\ UNCHANGED filter

(***************************************************************************)
(* Callers of the detector.                                                *)
(***************************************************************************)
InitDetector(n, start) ==
    /\ stream \in Streams(n)
    /\ New
    /\ inserted = {}
    /\ flagged = {}
    /\ resets = {}
    /\ outcome = [i \in DOMAIN stream |-> NotCalled]
    /\ replay_outcome = [i \in DOMAIN stream |-> NotCalled]
    /\ pc = start
    /\ empty_result = << >>
    /\ IdleAlphabet
    /\ IdleQuality

\* Any order of calls: each record is inserted at most once and validated at
\* most once, in any interleaving.
CallInsert(i) ==
    /\ pc = "any"
    /\ i \notin inserted
    /\ Insert(i)
    /\ UNCHANGED <<stream, outcome, replay_outcome, pc, empty_result, alphabet_vars,
                   sample_out>>

CallValidate(i) ==
    /\ pc = "any"
    /\ outcome[i] = NotCalled
    /\ Validate(i)
    /\ UNCHANGED <<stream, inserted, flagged, resets, replay_outcome, pc, empty_result,
                   alphabet_vars, sample_out>>

Init == InitDetector(MaxCalls, "any")

InsertAny == \E i \in DOMAIN stream : CallInsert(i)

ValidateAny == \E i \in DOMAIN stream : CallValidate(i)

Next == InsertAny \/ ValidateAny

Spec == Init /\ [][Next]_vars

\* The two passes of the doc example: pass 1 inserts every record in file
\* order, then pass 2 validates every record in the same order.
Pass1Insert ==
    /\ pc = "pass1"
    /\ Cardinality(inserted) < Len(stream)
    /\ Insert(Cardinality(inserted) + 1)
    /\ UNCHANGED <<stream, outcome, replay_outcome, pc, empty_result, alphabet_vars,
                   sample_out>>

Pass1Finish ==
    /\ pc = "pass1"
    /\ Cardinality(inserted) = Len(stream)
    /\ empty_result' = <<is_empty>>
    /\ pc' = "pass2"
    /\ UNCHANGED <<stream, filter, possible_duplicates, inserted, flagged, resets, outcome,
                   replay_outcome, alphabet_vars, sample_out>>

NextToValidate == Cardinality({i \in DOMAIN stream : outcome[i] # NotCalled}) + 1

Pass2Validate ==
    /\ pc = "pass2"
    /\ NextToValidate <= Len(stream)
    /\ Validate(NextToValidate)
    /\ UNCHANGED <<stream, inserted, flagged, resets, replay_outcome, pc, empty_result,
                   alphabet_vars, sample_out>>

Pass2Finish ==
    /\ pc = "pass2"
    /\ NextToValidate > Len(stream)
    /\ pc' = "done"
    /\ UNCHANGED <<stream, filter, possible_duplicates, inserted, flagged, resets, outcome,
                   replay_outcome, empty_result, alphabet_vars, sample_out>>

InitTwoPass == InitDetector(MaxRecords, "pass1")

NextTwoPass == Pass1Insert \/ Pass1Finish \/ Pass2Validate \/ Pass2Finish

SpecTwoPass == InitTwoPass /\ [][NextTwoPass]_vars

\* The same two passes on one instance, and then pass 2 once more over every
\* record in the same order, with no insert in between.
\* DuplicateNameValidator::validate(b) in that second pass 2
ValidateAgain(i) ==
    LET name == stream[i] IN
    /\ replay_outcome' =
          [replay_outcome EXCEPT ![i] = ValidateResult(possible_duplicates, name)]
    /\ possible_duplicates' = ValidateMap(possible_duplicates, name)
    /\ UNCHANGED filter

NextToReplay == Cardinality({i \in DOMAIN stream : replay_outcome[i] # NotCalled}) + 1

ReplayPass1Insert ==
    /\ pc = "replay_pass1"
    /\ Cardinality(inserted) < Len(stream)
    /\ Insert(Cardinality(inserted) + 1)
    /\ UNCHANGED <<stream, outcome, replay_outcome, pc, empty_result, alphabet_vars,
                   sample_out>>

ReplayPass1Finish ==
    /\ pc = "replay_pass1"
    /\ Cardinality(inserted) = Len(stream)
    /\ pc' = "replay_pass2"
    /\ UNCHANGED <<stream, filter, possible_duplicates, inserted, flagged, resets, outcome,
                   replay_outcome, empty_result, alphabet_vars, sample_out>>

ReplayPass2Validate ==
    /\ pc = "replay_pass2"
    /\ NextToValidate <= Len(stream)
    /\ Validate(NextToValidate)
    /\ UNCHANGED <<stream, inserted, flagged, resets, replay_outcome, pc, empty_result,
                   alphabet_vars, sample_out>>

ReplayPass2Finish ==
    /\ pc = "replay_pass2"
    /\ NextToValidate > Len(stream)
    /\ pc' = "replay"
    /\ UNCHANGED <<stream, filter, possible_duplicates, inserted, flagged, resets, outcome,
                   replay_outcome, empty_result, alphabet_vars, sample_out>>

ReplayValidate ==
    /\ pc = "replay"
    /\ NextToReplay <= Len(stream)
    /\ ValidateAgain(NextToReplay)
    /\ UNCHANGED <<stream, inserted, flagged, resets, outcome, pc, empty_result,
                   alphabet_vars, sample_out>>

ReplayFinish ==
    /\ pc = "replay"
    /\ NextToReplay > Len(stream)
    /\ pc' = "replay_done"
    /\ UNCHANGED <<stream, filter, possible_duplicates, inserted, flagged, resets, outcome,
                   replay_outcome, empty_result, alphabet_vars, sample_out>>

InitReplay == InitDetector(MaxRecords, "replay_pass1")

NextReplay ==
    \/ ReplayPass1Insert
    \/ ReplayPass1Finish
    \/ ReplayPass2Validate
    \/ ReplayPass2Finish
    \/ ReplayValidate
    \/ ReplayFinish

SpecReplay == InitReplay /\ [][NextReplay]_vars

(***************************************************************************)
(* AlphabetValidator                                                       *)
(***************************************************************************)
\* b"ACGTNacgtn", the alphabet of AlphabetValidator::default
DefaultCharacters == <<65, 67, 71, 84, 78, 97, 99, 103, 116, 110>>

\* the character lists a validator is built from: the default one, b"abc" of
\* test_new, one letter, none
CharacterLists == {DefaultCharacters, <<97, 98, 99>>, <<65>>, << >>}

\* the bytes of the sequence lines: A, n, a, f, q
SeqBytes == {65, 110, 97, 102, 113}

Sequences(n) == UNION {[1..k -> SeqBytes] : k \in 0..n}

AlphabetCode == "S002"

AlphabetName == "AlphabetValidator"

\* AlphabetValidator::new(characters): characters.iter().cloned().collect()
AlphabetNew(characters) == {characters[i] : i \in DOMAIN characters}

\* a column that is the index of enumerate() itself
AlphabetColumnZeroBased(i) == i

\* the column reported for the byte at index i of enumerate()
AlphabetColumn(i) == i + 1

\* a validate() that goes on after a disallowed byte and reports the last one
RECURSIVE AlphabetScanLast(_, _, _)
AlphabetScanLast(alph, seq, i) ==
    IF i >= Len(seq)
      THEN Ok
      ELSE LET rest == AlphabetScanLast(alph, seq, i + 1) IN
           IF seq[i + 1] \notin alph /\ rest = Ok
             THEN Error(AlphabetCode, AlphabetName, <<"Invalid character: ", seq[i + 1]>>,
                        "Sequence", AlphabetColumn(i))
             ELSE rest

\* the loop of AlphabetValidator::validate from index i (0-based) on
RECURSIVE AlphabetScan(_, _, _)
AlphabetScan(alph, seq, i) ==
    IF i >= Len(seq)
      THEN Ok
      ELSE IF seq[i + 1] \notin alph
             THEN Error(AlphabetCode, AlphabetName, <<"Invalid character: ", seq[i + 1]>>,
                        "Sequence", AlphabetColumn(i))
             ELSE AlphabetScan(alph, seq, i + 1)

\* a validate() that asks the set with insert(), and so learns the bytes it meets
AlphabetAfterValidateLearning(alph, seq) ==
    alph \cup {seq[j] : j \in {k \in DOMAIN seq : \A l \in 1..(k - 1) : seq[l] \in alph}}

\* the alphabet a validate() call leaves: validate takes &self
AlphabetAfterValidate(alph, seq) == alph

\* AlphabetValidator::validate(b)
AlphabetValidate ==
    /\ pc = "alphabet"
    /\ Len(calls) < MaxValidations
    /\ calls' = Append(calls, AlphabetScan(alphabet, sequence, 0))
    /\ alphabet' = AlphabetAfterValidate(alphabet, sequence)
    /\ UNCHANGED <<sequence, detector_vars, sample_out>>

InitAlphabet ==
    /\ \E characters \in CharacterLists : alphabet = AlphabetNew(characters)
    /\ sequence \in Sequences(MaxSeqLen)
    /\ calls = << >>
    /\ stream = << >>
    /\ New
    /\ inserted = {}
    /\ flagged = {}
    /\ resets = {}
    /\ outcome = << >>
    /\ replay_outcome = << >>
    /\ pc = "alphabet"
    /\ empty_result = << >>
    /\ IdleQuality

NextAlphabet == AlphabetValidate

SpecAlphabet == InitAlphabet /\ [][NextAlphabet]_vars

(***************************************************************************)
(* Both validators over one file: the default AlphabetValidator validates  *)
(* a sequence line, and the DuplicateNameValidator makes its two passes    *)
(* over the names.                                                         *)
(***************************************************************************)
FileAlphabetValidate ==
    /\ pc = "file"
    /\ calls = << >>
    /\ calls' = Append(calls, AlphabetScan(alphabet, sequence, 0))
    /\ alphabet' = AlphabetAfterValidate(alphabet, sequence)
    /\ UNCHANGED <<sequence, detector_vars, sample_out>>

FileInsert ==
    /\ pc = "file"
    /\ Cardinality(inserted) < Len(stream)
    /\ Insert(Cardinality(inserted) + 1)
    /\ UNCHANGED <<stream, outcome, replay_outcome, pc, empty_result, alphabet_vars,
                   sample_out>>

FileValidate ==
    /\ pc = "file"
    /\ Cardinality(inserted) = Len(stream)
    /\ NextToValidate <= Len(stream)
    /\ Validate(NextToValidate)
    /\ UNCHANGED <<stream, inserted, flagged, resets, replay_outcome, pc, empty_result,
                   alphabet_vars, sample_out>>

InitFile ==
    /\ stream \in Streams(MaxFileRecords)
    /\ New
    /\ inserted = {}
    /\ flagged = {}
    /\ resets = {}
    /\ outcome = [i \in DOMAIN stream |-> NotCalled]
    /\ replay_outcome = [i \in DOMAIN stream |-> NotCalled]
    /\ pc = "file"
    /\ empty_result = << >>
    /\ alphabet = AlphabetNew(DefaultCharacters)
    /\ sequence \in Sequences(MaxFileSeqLen)
    /\ calls = << >>
    /\ IdleQuality

NextFile == FileAlphabetValidate \/ FileInsert \/ FileValidate

SpecFile == InitFile /\ [][NextFile]_vars

(***************************************************************************)
(* QualityScores.  An f64 is held as a whole number of 1/Scale.            *)
(***************************************************************************)
MIN == 0

MAX == 41

\* the f64 of a whole number
F64(k) == k * Scale

\* what the normal distribution may give
Draws == (F64(MIN) - Margin)..(F64(MAX) + Margin)

\* a clamp() without its upper bound
clampNoUpper(n, min, max) ==
    IF n < min THEN min
    ELSE n

\* fn clamp(n, min, max)
clamp(n, min, max) ==
    IF n < min THEN min
    ELSE IF n > max THEN max
    ELSE n

\* f64::round: to the nearest whole number, halves away from zero
round(x) ==
    IF x >= 0
      THEN F64((2 * x + Scale) \div (2 * Scale))
      ELSE F64(-((2 * (-x) + Scale) \div (2 * Scale)))

\* `score as u8`: the whole part, saturating at the ends of u8
AsU8(x) ==
    LET whole == IF x >= 0 THEN x \div Scale ELSE -((-x) \div Scale) IN
    IF whole < 0 THEN 0
    ELSE IF whole > 255 THEN 255
    ELSE whole

\* QualityScores::sample for the draw n
sample(n) == AsU8(round(clamp(n, F64(MIN), F64(MAX))))

Sample ==
    /\ pc = "quality"
    /\ \E n \in Draws : sample_out' = <<n, sample(n)>>
    /\ UNCHANGED <<detector_vars, alphabet_vars>>

InitQuality ==
    /\ sample_out = << >>
    /\ stream = << >>
    /\ New
    /\ inserted = {}
    /\ flagged = {}
    /\ resets = {}
    /\ outcome = << >>
    /\ replay_outcome = << >>
    /\ pc = "quality"
    /\ empty_result = << >>
    /\ IdleAlphabet

NextQuality == Sample

SpecQuality == InitQuality /\ [][NextQuality]_vars

(***************************************************************************)
(* Properties of the detector                                              *)
(***************************************************************************)
Positions(name) == {i \in DOMAIN stream : stream[i] = name}

Validated == {i \in DOMAIN stream : outcome[i] # NotCalled}

Passed(name) == {i \in Positions(name) : IsOk(outcome[i])}

Failed(name) == {i \in Positions(name) : IsErr(outcome[i])}

\* the names that occur at least twice in the stream
Repeated == {name \in NamesOf(stream) : Cardinality(Positions(name)) >= 2}

\* the names that reached the candidate map without occurring twice
FalsePositives == Keys(possible_duplicates) \ Repeated

\* C1: when exactly one name X occurs n >= 2 times and every other name once,
\* after pass 1 over every record and pass 2 over every record in the same
\* order, one occurrence of X passes, the other n-1 fail and every name that
\* occurs once passes, whatever the filter's false positives; r1,r2,r1,r3,r1
\* gives pass, pass, fail, pass, fail.
C1_OneRepeatedName ==
    (pc = "done" /\ Cardinality(Repeated) = 1) =>
        /\ \A x \in Repeated :
              /\ Cardinality(Passed(x)) = 1
              /\ Cardinality(Failed(x)) = Cardinality(Positions(x)) - 1
        /\ \A name \in NamesOf(stream) \ Repeated : Passed(name) = Positions(name)
        /\ stream = <<"r1", "r2", "r1", "r3", "r1">> =>
              [i \in DOMAIN stream |-> IsOk(outcome[i])] = <<TRUE, TRUE, FALSE, TRUE, FALSE>>

\* the scenario of C1 has run, with a false positive of the filter on r2
C1_Witness ==
    /\ pc = "done"
    /\ stream = <<"r1", "r2", "r1", "r3", "r1">>
    /\ "r2" \in FalsePositives
    /\ IsOk(outcome[1]) /\ IsErr(outcome[3]) /\ IsErr(outcome[5])

\* C2: for any stream, with pass 1 complete and pass 2 in the same order, the
\* check of a record fails exactly when an earlier record carries the same
\* name; at the end the failures number the records minus the distinct names.
C2_FirstPassesLaterFail ==
    /\ pc \in {"pass2", "done"} =>
          \A i \in Validated :
              IsErr(outcome[i]) <=> (\E j \in 1..(i - 1) : stream[j] = stream[i])
    /\ pc = "done" =>
          Cardinality({i \in DOMAIN stream : IsErr(outcome[i])})
              = Len(stream) - Cardinality(NamesOf(stream))

\* pass 2 is over on a stream with two repeated names of different
\* multiplicities: three failures
C2_Witness ==
    /\ pc = "done"
    /\ Cardinality(Repeated) = 2
    /\ \E x \in Repeated : Cardinality(Positions(x)) = 3
    /\ Cardinality({i \in DOMAIN stream : IsErr(outcome[i])}) = 3
\* the names insert() was called with, and how often
InsertedNames == {stream[i] : i \in inserted}

InsertCount(name) == Cardinality({i \in inserted : stream[i] = name})

\* C3: in any interleaving of insert and validate with each record validated
\* at most once, and whatever the filter's false positives, validate never
\* fails on a record whose name no other record carries, and a failure is
\* reported only for a name an earlier validate call has seen.
C3_NeverOnUnique ==
    \A i \in DOMAIN stream :
        IsErr(outcome[i]) => Cardinality(Positions(stream[i])) >= 2

C3_OnlyAfterEarlierCheck ==
    \A i \in DOMAIN stream :
        (outcome[i] = NotCalled /\ IsErr(outcome'[i])) =>
            \E j \in DOMAIN stream \ {i} : stream[j] = stream[i] /\ outcome[j] # NotCalled

C3_NoFalsePositive == [](C3_NeverOnUnique) /\ [][C3_OnlyAfterEarlierCheck]_vars

\* a unique name is a candidate by a false positive and passes, and the
\* first record of a repeated name fails because the later one was
\* validated before it
C3_Witness ==
    /\ pc = "any"
    /\ stream = <<"r1", "r2", "r1">>
    /\ "r2" \in FalsePositives
    /\ IsOk(outcome[2]) /\ IsOk(outcome[3]) /\ IsErr(outcome[1])

\* C4: a name passed to insert at least twice during pass 1 is a key of the
\* candidate map at the end of pass 1 (and from its second insert on).
C4_RepeatIsCandidate ==
    \A name \in Names : InsertCount(name) >= 2 => name \in Keys(possible_duplicates)

\* pass 1 is over on a stream with two repeated names, one of them three times
C4_Witness ==
    /\ pc = "pass2"
    /\ Validated = {}
    /\ Cardinality(Repeated) = 2
    /\ \E x \in Repeated : InsertCount(x) = 3
    /\ Repeated \subseteq Keys(possible_duplicates)

\* the names with an insert() that the filter answered "already present"
FlaggedNames == {stream[i] : i \in flagged}

\* C5 as stated: the keys of the counter map are a strict subset of the
\* names passed to insert, and no key is a name the filter only ever
\* answered first-seen for.
C5_StrictSubset ==
    /\ Keys(possible_duplicates) \subseteq InsertedNames
    /\ Keys(possible_duplicates) # InsertedNames
    /\ Keys(possible_duplicates) \subseteq FlaggedNames

\* C5, amended: the keys of the counter map are a subset of the names passed
\* to insert, equal to it at times, and they are the names the filter
\* answered "already present" for on some insert: a name the filter only ever
\* answered first-seen for is not a key.
C5_CandidatesAreFlagged ==
    /\ Keys(possible_duplicates) \subseteq InsertedNames
    /\ Keys(possible_duplicates) = FlaggedNames

\* every inserted name is a key, one of them after a single insert
C5_Witness ==
    /\ Keys(possible_duplicates) # {}
    /\ Keys(possible_duplicates) = InsertedNames
    /\ \E name \in Keys(possible_duplicates) : InsertCount(name) = 1

\* C6: on a detector insert was never called on, every validate call
\* succeeds, for any names (a repeated name, the empty name), and the
\* candidate map stays empty.
C6_NeverPopulated ==
    inserted = {} =>
        /\ \A i \in DOMAIN stream : ~IsErr(outcome[i])
        /\ Keys(possible_duplicates) = {}

\* the empty name twice and another name, all validated, nothing inserted
C6_Witness ==
    /\ inserted = {}
    /\ stream = <<"", "", "r1">>
    /\ \A i \in DOMAIN stream : IsOk(outcome[i])

C12_InsertResets ==
    \A i \in DOMAIN stream :
        (i \notin inserted /\ i \in inserted' /\ stream[i] \in Keys(possible_duplicates)) =>
            possible_duplicates'[stream[i]] = 0

C12_PassesOffCandidate ==
    \A i \in DOMAIN stream :
        ( /\ outcome[i] = NotCalled
          /\ outcome'[i] # NotCalled
          /\ \/ stream[i] \notin Keys(possible_duplicates)
             \/ possible_duplicates[stream[i]] = 0 ) =>
            IsOk(outcome'[i])

C12_FalseNegatives == [][C12_InsertResets /\ C12_PassesOffCandidate]_vars

\* one name on three records and all three pass: one validated before the
\* name was a candidate, one at counter 0, and, the last insert having set the
\* counter of 1 back to 0, one after that insert
C12_Witness ==
    /\ pc = "any"
    /\ stream = <<"r1", "r1", "r1">>
    /\ inserted = DOMAIN stream
    /\ Cardinality(resets) = 1
    /\ possible_duplicates["r1"] = 1
    /\ \A i \in DOMAIN stream : IsOk(outcome[i])

\* how many insert() calls with this name the filter answered "already present"
FlaggedCount(name) == Cardinality({i \in flagged : stream[i] = name})

\* the filter answered "already present" on the first insert of the name (a
\* false positive): every insert of the name was flagged, the first included
FirstInsertFlagged(name) == InsertCount(name) >= 1 /\ FlaggedCount(name) = InsertCount(name)

\* C13: every key of the candidate map is a name inserted at least twice or a
\* name the filter answered "already present" for on its first insert; a name
\* the filter never flagged is not a key; and when the filter has produced no
\* false positive the keys are exactly the names inserted at least twice.
C13_CandidatesBounded ==
    /\ \A k \in Keys(possible_duplicates) : InsertCount(k) >= 2 \/ FirstInsertFlagged(k)
    /\ \A name \in Names : FlaggedCount(name) = 0 => name \notin Keys(possible_duplicates)
    /\ (\A name \in InsertedNames : ~FirstInsertFlagged(name)) =>
          Keys(possible_duplicates) = {name \in Names : InsertCount(name) >= 2}

\* r1 is a key after two inserts, r2 after one insert that the filter flagged
C13_Witness ==
    /\ stream = <<"r1", "r1", "r2">>
    /\ inserted = DOMAIN stream
    /\ Keys(possible_duplicates) = {"r1", "r2"}
    /\ FirstInsertFlagged("r2")
    /\ ~FirstInsertFlagged("r1")

\* C15: in every state reachable by insert and validate calls every counter
\* of the candidate map is 0 or 1: validate returns the failure without
\* counting once the counter is 1, so the u8 never comes near its overflow
\* however often a name is validated.
C15_CountersBinary ==
    \A k \in Keys(possible_duplicates) : possible_duplicates[k] \in {0, 1}

\* a candidate has been validated three times, twice failing: its counter is 1
C15_Witness ==
    /\ pc = "any"
    /\ stream = <<"r1", "r1", "r1">>
    /\ Cardinality(Failed("r1")) = 2
    /\ possible_duplicates["r1"] = 1

\* C16: a validate that fails leaves the detector (filter and candidate map)
\* unchanged; a validate of a name that is no candidate leaves it unchanged;
\* a validate that passes on a candidate changes that name's counter from 0
\* to 1 and nothing else; no validate adds or removes a key or changes the
\* filter.
C16_ValidateFrame ==
    \A i \in DOMAIN stream :
        (outcome[i] = NotCalled /\ outcome'[i] # NotCalled) =>
            LET name == stream[i] IN
            /\ IsErr(outcome'[i]) =>
                  possible_duplicates' = possible_duplicates /\ filter' = filter
            /\ name \notin Keys(possible_duplicates) =>
                  possible_duplicates' = possible_duplicates /\ filter' = filter
            /\ (IsOk(outcome'[i]) /\ name \in Keys(possible_duplicates)) =>
                  /\ possible_duplicates[name] = 0
                  /\ possible_duplicates' = [possible_duplicates EXCEPT ![name] = 1]
            /\ Keys(possible_duplicates') = Keys(possible_duplicates)
            /\ filter' = filter

C16_CheckFrame == [][C16_ValidateFrame]_vars

\* a validate has passed on the candidate r1, one has failed on it, and one
\* has passed on r2, which is no candidate
C16_Witness ==
    /\ pc = "any"
    /\ stream = <<"r1", "r1", "r2">>
    /\ Keys(possible_duplicates) = {"r1"}
    /\ possible_duplicates["r1"] = 1
    /\ IsOk(outcome[1]) /\ IsErr(outcome[2]) /\ IsOk(outcome[3])
    /\ resets = {}

\* C17: nothing removes a name from the candidate map or from the filter, and
\* a completed pass 2 leaves the counter of every validated candidate at 1; so
\* when pass 2 is run a second time on the same instance with no new insert,
\* every record whose name is a candidate fails, the first occurrence of a
\* repeated name and a unique name flagged by a false positive included.
C17_NothingRemoved ==
    /\ Keys(possible_duplicates) \subseteq Keys(possible_duplicates')
    /\ filter \subseteq filter'

C17_AfterPass2 ==
    pc \in {"replay", "replay_done"} =>
        /\ \A k \in Keys(possible_duplicates) : possible_duplicates[k] = 1
        /\ \A i \in DOMAIN stream :
              (replay_outcome[i] # NotCalled /\ stream[i] \in Keys(possible_duplicates)) =>
                  IsErr(replay_outcome[i])

C17_NoReset == [](C17_AfterPass2) /\ [][C17_NothingRemoved]_vars

\* the second pass 2 is over: the first r1, which passed in pass 2, fails, and
\* so does r2, which occurs once and is a candidate by a false positive
C17_Witness ==
    /\ pc = "replay_done"
    /\ stream = <<"r1", "r1", "r2">>
    /\ "r2" \in FalsePositives
    /\ IsOk(outcome[1]) /\ IsErr(outcome[2]) /\ IsOk(outcome[3])
    /\ \A i \in DOMAIN stream : IsErr(replay_outcome[i])

(***************************************************************************)
(* Properties of the alphabet validator                                    *)
(***************************************************************************)
\* the positions (1-based) of the bytes of the sequence outside the alphabet
Disallowed == {j \in DOMAIN sequence : sequence[j] \notin alphabet}

\* C8: validate succeeds on every sequence made of permitted bytes only, and
\* on a sequence with exactly one disallowed byte, at 1-based position k, it
\* fails with offset k.
C8_AlphabetCheck ==
    \A c \in DOMAIN calls :
        /\ Disallowed = {} => IsOk(calls[c])
        /\ \A k \in DOMAIN sequence :
              Disallowed = {k} => (IsErr(calls[c]) /\ calls[c].col_no = k)

\* the one disallowed byte is the second of three: offset 2
C8_Witness ==
    /\ Len(sequence) = 3
    /\ Disallowed = {2}
    /\ Len(calls) >= 1
    /\ IsErr(calls[1]) /\ calls[1].col_no = 2

\* C9: two validate calls on the same record with the same AlphabetValidator
\* give the same result (success, or the same diagnosis at the same offset),
\* and a call leaves the permitted set and the record as they were.
C9_SameResult == \A c, d \in DOMAIN calls : calls[c] = calls[d]

C9_Frame == alphabet' = alphabet /\ sequence' = sequence

FirstDisallowed == CHOOSE j \in Disallowed : \A k \in Disallowed : j <= k

\* C11: on a sequence with one or more disallowed bytes validate fails with
\* the offset of the first of them (index + 1) and names the byte at that
\* position, not a later one; the empty sequence passes.
C11_FirstViolationOnly ==
    \A c \in DOMAIN calls :
        /\ Disallowed # {} =>
              /\ IsErr(calls[c])
              /\ calls[c].col_no = FirstDisallowed
              /\ calls[c].message = <<"Invalid character: ", sequence[FirstDisallowed]>>
        /\ sequence = << >> => IsOk(calls[c])

\* two different disallowed bytes, at positions 2 and 3: the diagnosis is for
\* position 2
C11_Witness ==
    /\ Len(calls) >= 1
    /\ Disallowed = {2, 3}
    /\ sequence[2] # sequence[3]
    /\ IsErr(calls[1])
    /\ calls[1].col_no = 2
    /\ calls[1].message[2] = sequence[2]

(***************************************************************************)
(* Properties of the diagnoses                                             *)
(***************************************************************************)
\* the diagnoses each validator has produced
DuplicateErrors == {outcome[i] : i \in {j \in DOMAIN outcome : IsErr(outcome[j])}}

AlphabetErrors == {calls[c] : c \in {d \in DOMAIN calls : IsErr(calls[d])}}

\* C14: a failure of the duplicate-name check carries code S007, check name
\* DuplicateNameValidator, field Name and offset 1; a failure of the alphabet
\* check carries code S002, check name AlphabetValidator, field Sequence and
\* offset index + 1, the position of the offending byte; the codes of the two
\* differ, and every offset is present and at least 1.
C14_Diagnoses ==
    /\ \A err \in DuplicateErrors :
          /\ err.code = "S007"
          /\ err.name = "DuplicateNameValidator"
          /\ err.line_type = "Name"
          /\ err.col_no = 1
    /\ \A err \in AlphabetErrors :
          /\ err.code = "S002"
          /\ err.name = "AlphabetValidator"
          /\ err.line_type = "Sequence"
          /\ err.col_no \in DOMAIN sequence
          /\ sequence[err.col_no] \notin alphabet
    /\ \A d \in DuplicateErrors, a \in AlphabetErrors : d.code # a.code
    /\ \A err \in DuplicateErrors \cup AlphabetErrors : err.col_no \in Nat \ {0}

\* one file has given a diagnosis of each validator, the alphabet one at the
\* second byte
C14_Witness ==
    /\ pc = "file"
    /\ DuplicateErrors # {}
    /\ \E err \in AlphabetErrors : err.col_no = 2

(***************************************************************************)
(* Properties of the quality score generator                               *)
(***************************************************************************)
Abs(x) == IF x >= 0 THEN x ELSE -x

\* C10: for every draw, below 0, inside [0, 41] or above 41, sample returns
\* the draw clamped into [0, 41] and rounded to the nearest integer, so every
\* score lies in 0..41; clamp(n, min, max) is min when n < min, max when
\* n > max, and n otherwise.
C10_Bounded ==
    sample_out # << >> =>
        LET n == sample_out[1]
            score == sample_out[2]
            lo == F64(MIN)
            hi == F64(MAX)
        IN  /\ score \in MIN..MAX
            /\ n < lo => score = MIN
            /\ n > hi => score = MAX
            /\ (lo <= n /\ n <= hi) => 2 * Abs(F64(score) - n) <= Scale
            /\ \A min \in {lo, F64(1)}, max \in {F64(1), hi} :
                  /\ n < min => clamp(n, min, max) = min
                  /\ n > max => clamp(n, min, max) = max
                  /\ (min <= n /\ n <= max) => clamp(n, min, max) = n

\* a draw above 41 gave the score 41
C10_Witness ==
    /\ sample_out # << >>
    /\ sample_out[1] > F64(MAX)
    /\ sample_out[2] = MAX
====
